---- MODULE Spec2Model ----
(***************************************************************************)
(* Hybrid logical clocks (cstorey/hybrid-clocks).                          *)
(*                                                                         *)
(* The model follows src/src/lib.rs: a Clock owns a ClockSource, the       *)
(* configured epoch, last_observed and an optional max_offset.  The        *)
(* source is the ManualClock (a settable u64), whose Time and Delta are    *)
(* plain u64.                                                              *)
(*                                                                         *)
(* Machine integers are scaled down: a u32 count lives in 0..MaxCount and  *)
(* a u64 time in 0..MaxTime, and arithmetic on them leaves the range       *)
(* exactly where the Rust arithmetic leaves u32 / u64.  What an            *)
(* out-of-range `+` or `-` does depends on the build: with overflow checks *)
(* (debug profile) it panics, without them (release profile) it wraps.     *)
(* The build is chosen once, in Init, and both are explored.               *)
(*                                                                         *)
(* The byte form of wall-clock timestamps and the wall sources'            *)
(* conversions from a time since the epoch (src/src/source/wall_ns.rs,     *)
(* wall_ms.rs) are modelled as functions applied to enumerated inputs.     *)
(***************************************************************************)
EXTENDS Integers, FiniteSets, Sequences, TLC

\* Scaled-down ranges of the machine integers and of the inputs.
MaxEpoch == 1
MaxTime == 2
MaxCount == 2
MaxOffset == 1

Epochs == 0..MaxEpoch
Times == 0..MaxTime
Counts == 0..MaxCount
Offsets == 0..MaxOffset

\* Number of values of the (scaled) u64 time and u32 count.
TimeMod == MaxTime + 1
CountMod == MaxCount + 1

Timestamp == [epoch : Epochs, time : Times, count : Counts]

\* Option<T>: None is the empty set and Some(x) the singleton.
None == {}
Some(x) == {x}
the(o) == CHOOSE x \in o : TRUE
Builds == {"debug", "release"}

VARIABLES
    src,            \* ManualClock's cell: the physical reading
    epoch,          \* Clock::epoch, the configured epoch
    last_observed,  \* Clock::last_observed
    max_offset,     \* Clock::max_offset: None or Some(diff)
    build,          \* "debug": overflow checks on; "release": wrapping
    op,             \* the last call made on the clock
    msg,            \* Some(argument) of that call when it is observe, else None
    ret,            \* how that call ended: "Ok", "OffsetTooGreat" or "panic"
    maxNow,         \* history: greatest timestamp returned by now() so far
    maxObs,         \* history: greatest timestamp accepted by observe() so far
    found,          \* history: Some(last_observed as the last call found it)
    maxRead,        \* history: Some(greatest source reading the clock has taken so far)
    input,          \* pure-function checks: the arguments
    output,         \* pure-function checks: Some(result) once computed
    clocks,         \* several processes: each one's Clock (epoch, last_observed)
    net,            \* several processes: the timestamps sent and not yet received
    past,           \* history: per process, the greatest timestamp among its
                    \* events so far and the events that happen-before them
    ev,             \* history: Some(the last event): its process and the
                    \* greatest timestamp that happens-before it
    stopped,        \* the processes that panicked
    pc,             \* callers sharing one clock: each one's next statement
    mutex           \* callers sharing one clock: None, Some(the holder) or
                    \* Some("poisoned")

clockVars == <<src, epoch, last_observed, max_offset, build>>
callVars == <<op, msg, ret>>
histVars == <<maxNow, maxObs, found, maxRead>>
pureVars == <<input, output>>
netVars == <<clocks, net, past, ev, stopped, pc, mutex>>
vars == <<clockVars, callVars, histVars, pureVars, netVars>>

----------------------------------------------------------------------------
\* Ordering: #[derive(PartialOrd, Ord)] on Timestamp and Ord::cmp on integers.

\* Ord::cmp on u32 / u64.
int_cmp(a, b) ==
    IF a < b THEN "Less" ELSE IF a = b THEN "Equal" ELSE "Greater"

\* Mutant: the derive with `time` declared before `epoch`.
cmp_time_first(a, b) ==
    IF int_cmp(a.time, b.time) # "Equal" THEN int_cmp(a.time, b.time)
    ELSE IF int_cmp(a.epoch, b.epoch) # "Equal" THEN int_cmp(a.epoch, b.epoch)
    ELSE int_cmp(a.count, b.count)

\* The derived Ord of Timestamp: the fields compared in declaration order
\* (epoch, time, count), the first unequal one deciding.
cmp(a, b) ==
    IF int_cmp(a.epoch, b.epoch) # "Equal" THEN int_cmp(a.epoch, b.epoch)
    ELSE IF int_cmp(a.time, b.time) # "Equal" THEN int_cmp(a.time, b.time)
    ELSE int_cmp(a.count, b.count)

\* a < b on timestamps, as the derived PartialOrd gives it.
lt(a, b) == cmp(a, b) = "Less"

\* The greater of an optional timestamp and a timestamp.
MaxTs(m, t) == IF m = None THEN Some(t) ELSE IF lt(the(m), t) THEN Some(t) ELSE m

----------------------------------------------------------------------------
\* Machine arithmetic.  A result is [ok |-> TRUE, val |-> n], or
\* [ok |-> FALSE] when the operation panics.

Panic == [ok |-> FALSE, val |-> 0]
Val(n) == [ok |-> TRUE, val |-> n]

\* `c + 1` on a u32 count.
count_incr(c, b) ==
    IF c + 1 < CountMod THEN Val(c + 1)
    ELSE IF b = "debug" THEN Panic
    ELSE Val((c + 1) % CountMod)

\* `x - y` on u64 times (Sub for u64, the ManualClock's Time).
time_sub(x, y, b) ==
    IF x >= y THEN Val(x - y)
    ELSE IF b = "debug" THEN Panic
    ELSE Val((x - y) % TimeMod)

----------------------------------------------------------------------------
\* The clock (src/src/lib.rs).

\* Clock::read_pt: the configured epoch, a fresh source reading, count 0.
read_pt == [epoch |-> epoch, time |-> src, count |-> 0]

\* Mutant: the observation's epoch and time adopted, the local count kept.
do_observe_keeps_count(lp, observation, b) ==
    LET e == int_cmp(lp.epoch, observation.epoch)
        t == int_cmp(lp.time, observation.time)
        c == int_cmp(lp.count, observation.count)
    IN  IF e = "Less" \/ (e = "Equal" /\ t = "Less")
        THEN Val([observation EXCEPT !.count = lp.count])
        ELSE IF e = "Equal" /\ t = "Equal" /\ c = "Less"
        THEN LET n == count_incr(observation.count, b)
             IN  IF n.ok THEN Val([lp EXCEPT !.count = n.val]) ELSE Panic
        ELSE LET n == count_incr(lp.count, b)
             IN  IF n.ok THEN Val([lp EXCEPT !.count = n.val]) ELSE Panic

\* Mutant: the observation adopted whenever its epoch differs from lp's,
\* lower epochs included.
do_observe_any_other_epoch(lp, observation, b) ==
    LET e == int_cmp(lp.epoch, observation.epoch)
        t == int_cmp(lp.time, observation.time)
        c == int_cmp(lp.count, observation.count)
    IN  IF e # "Equal" \/ t = "Less" THEN Val(observation)
        ELSE IF t = "Equal" /\ c = "Less"
        THEN LET n == count_incr(observation.count, b)
             IN  IF n.ok THEN Val([lp EXCEPT !.count = n.val]) ELSE Panic
        ELSE LET n == count_incr(lp.count, b)
             IN  IF n.ok THEN Val([lp EXCEPT !.count = n.val]) ELSE Panic

\* Mutant: the update algorithm of a clock without epochs, ordering lp and
\* the observation by time alone.
do_observe_time_only(lp, observation, b) ==
    LET t == int_cmp(lp.time, observation.time)
        c == int_cmp(lp.count, observation.count)
    IN  IF t = "Less" THEN Val(observation)
        ELSE IF t = "Equal" /\ c = "Less"
        THEN LET n == count_incr(observation.count, b)
             IN  IF n.ok THEN Val([lp EXCEPT !.count = n.val]) ELSE Panic
        ELSE LET n == count_incr(lp.count, b)
             IN  IF n.ok THEN Val([lp EXCEPT !.count = n.val]) ELSE Panic

\* Mutant: the (Equal, Less, _) pattern left out of the first match arm, so
\* only a higher epoch is adopted.
do_observe_epoch_only(lp, observation, b) ==
    LET e == int_cmp(lp.epoch, observation.epoch)
        t == int_cmp(lp.time, observation.time)
        c == int_cmp(lp.count, observation.count)
    IN  IF e = "Less"
        THEN Val(observation)
        ELSE IF e = "Equal" /\ t = "Equal" /\ c = "Less"
        THEN LET n == count_incr(observation.count, b)
             IN  IF n.ok THEN Val([lp EXCEPT !.count = n.val]) ELSE Panic
        ELSE LET n == count_incr(lp.count, b)
             IN  IF n.ok THEN Val([lp EXCEPT !.count = n.val]) ELSE Panic

\* Clock::do_observe: the new last_observed from lp = last_observed and the
\* observation, by the match on the three field comparisons.  [ok |-> FALSE]
\* when the count increment panics (last_observed is then not assigned).
do_observe(lp, observation, b) ==
    LET e == int_cmp(lp.epoch, observation.epoch)
        t == int_cmp(lp.time, observation.time)
        c == int_cmp(lp.count, observation.count)
    IN  IF e = "Less" \/ (e = "Equal" /\ t = "Less")
        THEN Val(observation)
        ELSE IF e = "Equal" /\ t = "Equal" /\ c = "Less"
        THEN LET n == count_incr(observation.count, b)
             IN  IF n.ok THEN Val([lp EXCEPT !.count = n.val]) ELSE Panic
        ELSE LET n == count_incr(lp.count, b)
             IN  IF n.ok THEN Val([lp EXCEPT !.count = n.val]) ELSE Panic

\* Mutant: the offset verified for messages of the clock's own epoch only.
verify_offset_same_epoch(max, pt, m, b) ==
    IF max = None \/ m.epoch # pt.epoch THEN "Ok"
    ELSE LET diff == time_sub(m.time, pt.time, b)
             max_v == the(max)
         IN  IF ~diff.ok THEN "panic"
             ELSE IF diff.val > max_v THEN "OffsetTooGreat"
             ELSE "Ok"

\* Mutant: the offset measured from last_observed.time, not from the fresh
\* reading pt.
verify_offset_from_last(max, pt, m, b) ==
    IF max = None THEN "Ok"
    ELSE LET diff == time_sub(m.time, last_observed.time, b)
             max_v == the(max)
         IN  IF ~diff.ok THEN "panic"
             ELSE IF diff.val > max_v THEN "OffsetTooGreat"
             ELSE "Ok"

\* Clock::verify_offset: with Some(max), diff = msg.time - pt.time and the
\* call fails when diff > max; with None nothing is computed.
verify_offset(max, pt, m, b) ==
    IF max = None THEN "Ok"
    ELSE LET diff == time_sub(m.time, pt.time, b)
             max_v == the(max)
         IN  IF ~diff.ok THEN "panic"
             ELSE IF diff.val > max_v THEN "OffsetTooGreat"
             ELSE "Ok"

\* A panic unwinds out of the caller: no further call is made on the clock.
alive == ret # "panic"

\* Mutant: last_observed left at the zero timestamp, no reading taken.
new_unseeded(t0, max, b) ==
    /\ src = t0
    /\ epoch = 0
    /\ last_observed = [epoch |-> 0, time |-> 0, count |-> 0]
    /\ max_offset = max
    /\ build = b
    /\ op = "new" /\ msg = None /\ ret = "Ok"

\* Clock::new and Clock::new_with_max_diff over a ManualClock reading t0.
new(t0, max, b) ==
    /\ src = t0
    /\ epoch = 0
    /\ last_observed = [epoch |-> 0, time |-> t0, count |-> 0]
    /\ max_offset = max
    /\ build = b
    /\ op = "new" /\ msg = None /\ ret = "Ok"

\* Mutant: now() advances the count of last_observed and takes no reading.
now_without_reading ==
    /\ alive
    /\ LET r == count_incr(last_observed.count, build)
       IN  /\ last_observed' = IF r.ok THEN [last_observed EXCEPT !.count = r.val]
                                ELSE last_observed
           /\ ret' = IF r.ok THEN "Ok" ELSE "panic"
    /\ op' = "now" /\ msg' = None
    /\ UNCHANGED <<src, epoch, max_offset, build>>

\* Clock::now.
now ==
    /\ alive
    /\ LET r == do_observe(last_observed, read_pt, build)
       IN  /\ last_observed' = IF r.ok THEN r.val ELSE last_observed
           /\ ret' = IF r.ok THEN "Ok" ELSE "panic"
    /\ op' = "now" /\ msg' = None
    /\ UNCHANGED <<src, epoch, max_offset, build>>

\* Mutant: the message folded before the offset is verified.
observe_fold_first(m) ==
    /\ alive
    /\ LET v == verify_offset(max_offset, read_pt, m, build)
           r == do_observe(last_observed, m, build)
       IN  /\ last_observed' = IF r.ok THEN r.val ELSE last_observed
           /\ ret' = IF r.ok THEN v ELSE "panic"
    /\ op' = "observe" /\ msg' = Some(m)
    /\ UNCHANGED <<src, epoch, max_offset, build>>

\* Mutant: the physical reading folded in after the message, as a receive
\* event that takes the maximum of the local, the remote and the physical
\* time does.
observe_folds_reading(m) ==
    /\ alive
    /\ LET v == verify_offset(max_offset, read_pt, m, build)
           r == do_observe(last_observed, m, build)
           r2 == IF r.ok THEN do_observe(r.val, read_pt, build) ELSE r
       IN  /\ last_observed' = IF v = "Ok" /\ r2.ok THEN r2.val ELSE last_observed
           /\ ret' = IF v = "Ok" THEN (IF r2.ok THEN "Ok" ELSE "panic") ELSE v
    /\ op' = "observe" /\ msg' = Some(m)
    /\ UNCHANGED <<src, epoch, max_offset, build>>

\* Clock::observe: read_pt, verify_offset (`try!` returns its error before
\* anything is assigned), then do_observe.
observe(m) ==
    /\ alive
    /\ LET v == verify_offset(max_offset, read_pt, m, build)
           r == do_observe(last_observed, m, build)
       IN  /\ last_observed' = IF v = "Ok" /\ r.ok THEN r.val ELSE last_observed
           /\ ret' = IF v = "Ok" THEN (IF r.ok THEN "Ok" ELSE "panic") ELSE v
    /\ op' = "observe" /\ msg' = Some(m)
    /\ UNCHANGED <<src, epoch, max_offset, build>>

\* Mutant: set_epoch also restamps last_observed with the new epoch.
set_epoch_restamps(e) ==
    /\ alive
    /\ epoch' = e
    /\ last_observed' = [last_observed EXCEPT !.epoch = e]
    /\ op' = "set_epoch" /\ msg' = None /\ ret' = "Ok"
    /\ UNCHANGED <<src, max_offset, build>>

\* Clock::set_epoch.
set_epoch(e) ==
    /\ alive
    /\ epoch' = e
    /\ op' = "set_epoch" /\ msg' = None /\ ret' = "Ok"
    /\ UNCHANGED <<src, last_observed, max_offset, build>>

\* Clock<ManualClock>::set_time.
set_time(t) ==
    /\ alive
    /\ src' = t
    /\ op' = "set_time" /\ msg' = None /\ ret' = "Ok"
    /\ UNCHANGED <<epoch, last_observed, max_offset, build>>

NoPure == input = None /\ output = None
NoHist == maxNow = None /\ maxObs = None /\ found = None /\ maxRead = None
NoLock == pc = None /\ mutex = None
NoNet == clocks = None /\ net = None /\ past = None /\ ev = None /\ stopped = None /\ NoLock

\* The single clock left as constructed, in the specifications that do not
\* drive it.
NoClock == new(0, None, "debug")

\* One clock, limited or not, driven by arbitrary calls.
Init ==
    /\ \E t0 \in Times, max \in {None} \cup {Some(d) : d \in Offsets}, b \in Builds :
          new(t0, max, b)
    /\ NoHist
    /\ NoPure
    /\ NoNet

Now == now /\ UNCHANGED <<histVars, pureVars, netVars>>
Observe == (\E m \in Timestamp : observe(m)) /\ UNCHANGED <<histVars, pureVars, netVars>>
SetEpoch == (\E e \in Epochs : set_epoch(e)) /\ UNCHANGED <<histVars, pureVars, netVars>>
SetTime == (\E t \in Times : set_time(t)) /\ UNCHANGED <<histVars, pureVars, netVars>>

Next == Now \/ Observe \/ SetEpoch \/ SetTime

Spec == Init /\ [][Next]_vars

----------------------------------------------------------------------------
\* One unlimited clock with the history of what now() returned and what
\* observe() accepted.

InitHist ==
    /\ \E t0 \in Times, b \in Builds : new(t0, None, b)
    /\ NoHist
    /\ NoPure
    /\ NoNet

\* now() returns self.last_observed.
HistNow ==
    /\ now
    /\ maxNow' = IF ret' = "Ok" THEN MaxTs(maxNow, last_observed') ELSE maxNow
    /\ UNCHANGED <<maxObs, found, maxRead, pureVars, netVars>>

HistObserve ==
    /\ \E m \in Timestamp :
          /\ observe(m)
          /\ maxObs' = IF ret' = "Ok" THEN MaxTs(maxObs, m) ELSE maxObs
    /\ UNCHANGED <<maxNow, found, maxRead, pureVars, netVars>>

NextHist == HistNow \/ HistObserve \/ SetEpoch \/ SetTime

SpecHist == InitHist /\ [][NextHist]_vars

----------------------------------------------------------------------------
\* One clock, limited or not, with the last_observed each call started from
\* (the `lp` of do_observe) kept next to what the call left.

InitPre ==
    /\ \E t0 \in Times, max \in {None} \cup {Some(d) : d \in Offsets}, b \in Builds :
          new(t0, max, b)
    /\ maxNow = None /\ maxObs = None /\ maxRead = None
    /\ found = Some(last_observed)
    /\ NoPure
    /\ NoNet

PreNow ==
    /\ now
    /\ found' = Some(last_observed)
    /\ UNCHANGED <<maxNow, maxObs, maxRead, pureVars, netVars>>

PreObserve ==
    /\ \E m \in Timestamp : observe(m)
    /\ found' = Some(last_observed)
    /\ UNCHANGED <<maxNow, maxObs, maxRead, pureVars, netVars>>

PreSetEpoch ==
    /\ \E e \in Epochs : set_epoch(e)
    /\ found' = Some(last_observed)
    /\ UNCHANGED <<maxNow, maxObs, maxRead, pureVars, netVars>>

PreSetTime ==
    /\ \E t \in Times : set_time(t)
    /\ found' = Some(last_observed)
    /\ UNCHANGED <<maxNow, maxObs, maxRead, pureVars, netVars>>

NextPre == PreNow \/ PreObserve \/ PreSetEpoch \/ PreSetTime

SpecPre == InitPre /\ [][NextPre]_vars

----------------------------------------------------------------------------
\* One clock over a source whose read can fail (source/mod.rs:
\* ClockSource::now returns a Result).  The source is the system clock as
\* WallNS reads it: SystemTime::now() since UNIX_EPOCH, which is an error
\* when the system time is before the epoch.  src holds the system time, a
\* negative value standing for an instant before UNIX_EPOCH.

SystemTimes == Times \cup {-1}

\* WallNS::now: WallNST::from_timespec(SystemTime::now()).
source_now(t) == IF t < 0 THEN [ok |-> FALSE, val |-> 0] ELSE Val(t)

\* Mutant: a failed read taken for the reading 0 and folded.
try_now_default_reading ==
    /\ alive
    /\ LET pt == [epoch |-> epoch, time |-> IF source_now(src).ok THEN src ELSE 0,
                  count |-> 0]
           r == do_observe(last_observed, pt, build)
       IN  /\ last_observed' = IF r.ok THEN r.val ELSE last_observed
           /\ ret' = IF r.ok THEN "Ok" ELSE "panic"
    /\ op' = "now" /\ msg' = None
    /\ UNCHANGED <<src, epoch, max_offset, build>>

\* Clock::now over a fallible source: the source error is returned before
\* anything is folded.
try_now ==
    /\ alive
    /\ IF source_now(src).ok
       THEN now
       ELSE /\ ret' = "ClockSourceFailure"
            /\ op' = "now" /\ msg' = None
            /\ UNCHANGED clockVars

\* observe over a fallible source: the limited clock reads the source
\* first and returns its error; the unlimited clock reads nothing.
try_observe(m) ==
    /\ alive
    /\ IF max_offset = None \/ source_now(src).ok
       THEN observe(m)
       ELSE /\ ret' = "ClockSourceFailure"
            /\ op' = "observe" /\ msg' = Some(m)
            /\ UNCHANGED clockVars

InitSrc ==
    /\ \E t0 \in Times, max \in {None} \cup {Some(d) : d \in Offsets}, b \in Builds :
          new(t0, max, b)
    /\ maxNow = None /\ maxObs = None /\ maxRead = None
    /\ found = Some(last_observed)
    /\ NoPure
    /\ NoNet

TryNow ==
    /\ try_now
    /\ found' = Some(last_observed)
    /\ UNCHANGED <<maxNow, maxObs, maxRead, pureVars, netVars>>

TryObserve ==
    /\ \E m \in Timestamp : try_observe(m)
    /\ found' = Some(last_observed)
    /\ UNCHANGED <<maxNow, maxObs, maxRead, pureVars, netVars>>

\* The system clock is set, possibly to before UNIX_EPOCH.
SetSystemTime ==
    /\ \E t \in SystemTimes : set_time(t)
    /\ found' = Some(last_observed)
    /\ UNCHANGED <<maxNow, maxObs, maxRead, pureVars, netVars>>

NextSrc == TryNow \/ TryObserve \/ PreSetEpoch \/ SetSystemTime

SpecSrc == InitSrc /\ [][NextSrc]_vars

----------------------------------------------------------------------------
\* The derived ordering applied to two arbitrary timestamps.

InitOrd ==
    /\ input \in Timestamp \X Timestamp
    /\ output = None
    /\ NoClock /\ NoHist /\ NoNet

\* a.cmp(&b)
Compare ==
    /\ output = None
    /\ output' = Some(cmp(input[1], input[2]))
    /\ UNCHANGED <<input, clockVars, callVars, histVars, netVars>>

NextOrd == Compare

SpecOrd == InitOrd /\ [][NextOrd]_vars

----------------------------------------------------------------------------
\* Two processes, each with its own unlimited clock over a wall source, as
\* in examples/simple.rs: a send is stamped with now(); a receive runs
\* observe(msg) and then now(), whose result stamps the receive.  The wall
\* source has no state of its own: each call reads whatever the process's
\* physical clock says at that moment.

Proc == {"a", "b"}
MaxInFlight == 2

\* now() on a clock c = [epoch, last_observed] with the source reading t.
clock_now(c, t, b) ==
    do_observe(c.last_observed, [epoch |-> c.epoch, time |-> t, count |-> 0], b)

\* observe(m) on an unlimited clock c.
clock_observe(c, m, b) == do_observe(c.last_observed, m, b)

\* Both clocks are built by Clock::wall(): epoch 0, last_observed seeded
\* from one reading, count 0.
InitNet ==
    /\ clocks \in [Proc -> [epoch : {0}, last_observed : [epoch : {0}, time : Times, count : {0}]]]
    /\ net = {}
    /\ past = [p \in Proc |-> None]
    /\ ev = None
    /\ stopped = {}
    /\ NoLock
    /\ \E b \in Builds : new(0, None, b)
    /\ NoHist /\ NoPure

\* Process p stamps a message with now() and sends it.
Send(p) ==
    /\ p \notin stopped
    /\ Cardinality(net) < MaxInFlight
    /\ \E t \in Times :
          LET r == clock_now(clocks[p], t, build)
          IN  IF r.ok
              THEN /\ clocks' = [clocks EXCEPT ![p].last_observed = r.val]
                   /\ net' = net \cup {[from |-> p, ts |-> r.val,
                                       past |-> MaxTs(past[p], r.val)]}
                   /\ past' = [past EXCEPT ![p] = MaxTs(past[p], r.val)]
                   /\ ev' = Some([proc |-> p, before |-> past[p]])
                   /\ UNCHANGED stopped
              ELSE /\ stopped' = stopped \cup {p}
                   /\ UNCHANGED <<clocks, net, past, ev>>
    /\ UNCHANGED <<clockVars, callVars, histVars, pureVars, pc, mutex>>

\* Process p receives a message m of another process: observe(m.ts), then
\* now().  The events that happen-before the receive are those before the
\* send (m.past, the send included) and those before p's previous event.
Receive(p) ==
    /\ p \notin stopped
    /\ \E m \in {x \in net : x.from # p}, t \in Times :
          LET o == clock_observe(clocks[p], m.ts, build)
              c1 == [clocks[p] EXCEPT !.last_observed = o.val]
              r == clock_now(c1, t, build)
              before == IF past[p] = None THEN m.past ELSE MaxTs(past[p], the(m.past))
          IN  IF o.ok /\ r.ok
              THEN /\ clocks' = [clocks EXCEPT ![p].last_observed = r.val]
                   /\ net' = net \ {m}
                   /\ past' = [past EXCEPT ![p] = MaxTs(before, r.val)]
                   /\ ev' = Some([proc |-> p, before |-> before])
                   /\ UNCHANGED stopped
              ELSE /\ stopped' = stopped \cup {p}
                   /\ clocks' = IF o.ok THEN [clocks EXCEPT ![p] = c1] ELSE clocks
                   /\ net' = net \ {m}
                   /\ UNCHANGED <<past, ev>>
    /\ UNCHANGED <<clockVars, callVars, histVars, pureVars, pc, mutex>>

NextNet == \E p \in Proc : Send(p) \/ Receive(p)

SpecNet == InitNet /\ [][NextNet]_vars

----------------------------------------------------------------------------
\* Properties of one clock.

\* x is before y in the lexicographic order of integer tuples.
LexLess(x, y) ==
    \E i \in 1..Len(x) : x[i] < y[i] /\ \A j \in 1..(i - 1) : x[j] = y[j]

Fields(t) == <<t.epoch, t.time, t.count>>

\* The observation the last call folded: the message of an observe, the
\* physical reading of a now (neither call changes src or epoch).
Folded == IF op = "observe" THEN the(msg) ELSE read_pt

\* C1: every timestamp returned by now() is strictly greater than every
\* timestamp an earlier now() on the same unlimited clock returned.
C1_NowAboveEarlierNow ==
    [][(op' = "now" /\ ret' = "Ok" /\ maxNow # None)
          => lt(the(maxNow), last_observed')]_vars

\* C2: on an unlimited clock, a now() that returns after an observe(msg)
\* returns a timestamp strictly greater than msg.
C2_NowAboveObserved ==
    (op = "now" /\ ret = "Ok" /\ maxObs # None) => lt(the(maxObs), last_observed)

\* C4: one run of the update algorithm leaves last_observed strictly greater
\* than the lp it started from and than the observation it folded.
C4_FoldAboveBoth ==
    [][(op' \in {"now", "observe"} /\ ret' = "Ok")
          => /\ lt(last_observed, last_observed')
             /\ lt(Folded', last_observed')]_vars

\* The (epoch, time) pair the update algorithm orders its inputs by.
ET(t) == <<t.epoch, t.time>>

\* C4 as amended: one run of the update algorithm leaves last_observed not
\* behind lp and not behind the observation on (epoch, time); when the
\* observation is ahead of lp on (epoch, time) the result is the observation
\* itself: strictly greater than lp, equal to (not greater than) obs.
C4_FoldNotBehindAdoptsEqual ==
    [][(op' \in {"now", "observe"} /\ ret' = "Ok")
          => /\ ~LexLess(ET(last_observed'), ET(last_observed))
             /\ ~LexLess(ET(last_observed'), ET(Folded'))
             /\ LexLess(ET(last_observed), ET(Folded'))
                   => /\ last_observed' = Folded'
                      /\ lt(last_observed, last_observed')]_vars

\* An observe adopted its message: last_observed is the message (with
\* overflow checks on, so that no wrapped count produced the equality).
C4_Witness ==
    /\ op = "observe" /\ ret = "Ok" /\ build = "debug"
    /\ last_observed = the(msg)

\* C6: a limited observe(msg) returns OffsetTooGreat exactly when msg.time
\* minus the physical reading of that call is greater than max_offset.
C6_RejectedIffTooFarAhead ==
    (op = "observe" /\ max_offset # None)
        => (ret = "OffsetTooGreat" <=> the(msg).time - src > the(max_offset))

\* C7: a limited observe(msg) with msg.time below the physical reading
\* returns Ok.
C7_PastTimestampAccepted ==
    (op = "observe" /\ max_offset # None /\ the(msg).time < src) => ret = "Ok"

\* C8: an observe that returns OffsetTooGreat leaves the clock as it was:
\* last_observed, the configured epoch, the source and max_offset.
C8_RejectedLeavesClock ==
    [][(op' = "observe" /\ ret' = "OffsetTooGreat")
          => UNCHANGED <<last_observed, epoch, src, max_offset>>]_vars

\* A message ahead of last_observed was rejected: folding it would have
\* changed the clock.
C8_Witness ==
    /\ op = "observe" /\ ret = "OffsetTooGreat"
    /\ lt(last_observed, the(msg))

\* C9: for a message not behind the source, the offset check compares
\* msg.time with the source's reading at the observe call: the message is
\* rejected exactly when it is more than max_offset ahead of that reading,
\* wherever last_observed.time and the construction-time reading are.
C9_CheckAgainstFreshReading ==
    (op = "observe" /\ max_offset # None /\ the(msg).time >= src)
        => (ret = "OffsetTooGreat" <=> the(msg).time - src > the(max_offset))

\* A message was accepted within max_offset of the moved source although it
\* is more than max_offset ahead of last_observed.time.
C9_Witness ==
    /\ op = "observe" /\ ret = "Ok" /\ max_offset # None
    /\ src # last_observed.time
    /\ the(max_offset) > 0
    /\ the(msg).time - src = the(max_offset)
    /\ the(msg).time - last_observed.time > the(max_offset)

\* C10: on a clock without max_offset every observe(msg) succeeds.
C10_UnlimitedObserveSucceeds ==
    (op = "observe" /\ max_offset = None) => ret = "Ok"

----------------------------------------------------------------------------
\* Properties of the ordering.

\* C5: timestamps are ordered lexicographically on (epoch, time, count): the
\* higher epoch orders after whatever time and count are, and two
\* timestamps compare equal only when all three fields are equal.
C5_LexicographicOrder ==
    output # None =>
        LET a == input[1]
            b == input[2]
            o == the(output)
        IN  /\ o = "Less" <=> LexLess(Fields(a), Fields(b))
            /\ o = "Greater" <=> LexLess(Fields(b), Fields(a))
            /\ o = "Equal" <=> (a.epoch = b.epoch /\ a.time = b.time /\ a.count = b.count)
            /\ a.epoch < b.epoch => o = "Less"

\* The lower epoch compared Less although its time and count are greater.
C5_Witness ==
    /\ output = Some("Less")
    /\ input[1].epoch < input[2].epoch
    /\ input[1].time > input[2].time
    /\ input[1].count > input[2].count

----------------------------------------------------------------------------
\* Properties of several processes.

\* C3: whenever event a happens-before event b, the timestamp of a is
\* strictly less than the timestamp of b.  ev holds the greatest timestamp
\* among the events that happen-before the last event, whose own timestamp
\* is its process's last_observed.
C3_HappensBeforeOrdered ==
    \A e \in ev :
        e.before # None => lt(the(e.before), clocks[e.proc].last_observed)

----------------------------------------------------------------------------
\* Properties of one clock that name the state a call started from.

\* The message with its count advanced by one, as the claim writes it: a
\* u32 one above msg.count.
Advanced(m) == [epoch |-> m.epoch, time |-> m.time, count |-> m.count + 1]

\* C11: when observe(msg) finds msg ahead of last_observed on (epoch, time)
\* and the reading of the now() that follows is not ahead of msg on
\* (configured epoch, time), that now() returns
\* {msg.epoch, msg.time, msg.count + 1}.
C11_NowAfterObserveAdvancesCount ==
    [][(/\ op = "observe" /\ ret = "Ok"
        /\ LexLess(ET(the(found)), ET(the(msg)))
        /\ op' = "now"
        /\ ~LexLess(ET(the(msg)), ET(read_pt)))
          => /\ ret' = "Ok"
             /\ last_observed' = Advanced(the(msg))]_vars

\* C12: a now() that finds the configured epoch above last_observed.epoch
\* (set_epoch(e) with e > last_observed.epoch went before) returns
\* {e, the physical reading, 0}, also when the reading is below
\* last_observed.time.
C12_NowAdoptsRaisedEpoch ==
    [][(op' = "now" /\ epoch > last_observed.epoch)
          => /\ ret' = "Ok"
             /\ last_observed' = [epoch |-> epoch, time |-> src, count |-> 0]]_vars

\* A now() found the configured epoch above, and the reading below, the
\* last_observed it started from, and returned the reading in that epoch.
C12_Witness ==
    /\ op = "now" /\ ret = "Ok"
    /\ the(found).epoch < epoch
    /\ src < the(found).time
    /\ last_observed = [epoch |-> epoch, time |-> src, count |-> 0]

\* C13: over any sequence of now, observe and set_epoch calls the epoch of
\* last_observed, which is the epoch of every timestamp now() returns, never
\* decreases; after an accepted observe(msg) it is at least msg.epoch, and
\* after a now() it is at least the configured epoch, so a set_epoch below
\* last_observed.epoch lowers the epoch of no later output.
C13_EpochNeverDecreases ==
    [][/\ last_observed.epoch <= last_observed'.epoch
       /\ (op' = "observe" /\ ret' = "Ok")
             => the(msg').epoch <= last_observed'.epoch
       /\ (op' = "now" /\ ret' = "Ok")
             => epoch <= last_observed'.epoch]_vars

\* A now() ran with the configured epoch below the epoch of the
\* last_observed it started from and returned a timestamp still in that
\* higher epoch.
C13_Witness ==
    /\ op = "now" /\ ret = "Ok"
    /\ epoch < the(found).epoch
    /\ last_observed.epoch = the(found).epoch

\* C14: when the source read of a now(), or of an observe() on a limited
\* clock, fails, the call returns the source error and leaves last_observed
\* and the configured epoch as they were.
C14_FailedReadLeavesClock ==
    [][(/\ op' \in {"now", "observe"}
        /\ ~source_now(src).ok
        /\ op' = "observe" => max_offset # None)
          => /\ ret' = "ClockSourceFailure"
             /\ last_observed' = last_observed
             /\ epoch' = epoch]_vars

\* A limited observe whose source read failed returned the source error
\* over a clock that earlier calls had moved.
C14_Witness ==
    /\ op = "observe" /\ ret = "ClockSourceFailure"
    /\ max_offset # None
    /\ last_observed = the(found)
    /\ last_observed.count > 0

\* C15: the count increment of the update algorithm never aborts and never
\* wraps: a now() or observe() on an unlimited clock (where nothing else is
\* computed) ends without a panic and leaves a last_observed that is not
\* smaller than the one it found.
C15_CountIncrementNeverOverflows ==
    [][(op' \in {"now", "observe"} /\ max_offset = None)
          => /\ ret' # "panic"
             /\ ~lt(last_observed', last_observed)]_vars

----------------------------------------------------------------------------
\* The 16-byte form of a wall-clock timestamp (Timestamp<WallT>,
\* Timestamp<WallNST>, Timestamp<WallMST>: the three impls are the same
\* code).  A byte is scaled down to 0..ByteBase-1; a u32 keeps its four
\* bytes and a u64 its eight, so a u32 lives in 0..ByteBase^4 - 1.

ByteBase == 2
U32Bytes == 4
U64Bytes == 8

U32Max == ByteBase ^ U32Bytes - 1
U64Max == ByteBase ^ U64Bytes - 1

\* The inputs: values with one byte set, with several, with all.
U32Samples == {0, 1, ByteBase, ByteBase ^ (U32Bytes - 1), U32Max}
U64Samples == {0, 1, ByteBase, ByteBase ^ U32Bytes, U64Max}
WallTimestamp == [epoch : U32Samples, time : U64Samples, count : U32Samples]

\* Mutant: u32 / u64 ::to_le_bytes, least significant byte first.
RECURSIVE to_le_bytes(_, _)
to_le_bytes(n, len) ==
    IF len = 0 THEN <<>>
    ELSE <<n % ByteBase>> \o to_le_bytes(n \div ByteBase, len - 1)

\* u32 / u64 ::to_be_bytes: the len bytes of n, most significant first.
RECURSIVE to_be_bytes(_, _)
to_be_bytes(n, len) ==
    IF len = 0 THEN <<>>
    ELSE Append(to_be_bytes(n \div ByteBase, len - 1), n % ByteBase)

\* u32 / u64 ::from_be_bytes.
RECURSIVE from_be_bytes(_)
from_be_bytes(bytes) ==
    IF bytes = <<>> THEN 0
    ELSE from_be_bytes(SubSeq(bytes, 1, Len(bytes) - 1)) * ByteBase
            + bytes[Len(bytes)]

\* res[lo..hi].copy_from_slice(bytes), on a 1-based sequence.
copy_from_slice(res, lo, hi, bytes) ==
    [i \in 1..Len(res) |-> IF lo < i /\ i <= hi THEN bytes[i - lo] ELSE res[i]]

\* bytes[lo..hi]
slice(bytes, lo, hi) == SubSeq(bytes, lo + 1, hi)

\* Mutant: the time written ahead of the epoch.
to_bytes_time_first(t) ==
    LET res0 == [i \in 1..16 |-> 0]
        res1 == copy_from_slice(res0, 0, 8, to_be_bytes(t.time, U64Bytes))
        res2 == copy_from_slice(res1, 8, 12, to_be_bytes(t.epoch, U32Bytes))
    IN  copy_from_slice(res2, 12, 16, to_be_bytes(t.count, U32Bytes))

\* Timestamp::to_bytes
to_bytes(t) ==
    LET res0 == [i \in 1..16 |-> 0]
        res1 == copy_from_slice(res0, 0, 4, to_be_bytes(t.epoch, U32Bytes))
        res2 == copy_from_slice(res1, 4, 12, to_be_bytes(t.time, U64Bytes))
    IN  copy_from_slice(res2, 12, 16, to_be_bytes(t.count, U32Bytes))

\* Mutant: the count read where the time ends, one field too early.
from_bytes_count_early(bytes) ==
    [epoch |-> from_be_bytes(slice(bytes, 0, 4)),
     time |-> from_be_bytes(slice(bytes, 4, 12)),
     count |-> from_be_bytes(slice(bytes, 8, 12))]

\* Timestamp::from_bytes
from_bytes(bytes) ==
    [epoch |-> from_be_bytes(slice(bytes, 0, 4)),
     time |-> from_be_bytes(slice(bytes, 4, 12)),
     count |-> from_be_bytes(slice(bytes, 12, 16))]

\* Timestamp::write_bytes into a writer that holds what was written so far:
\* write_all appends.
write_bytes(wr, t) == wr \o to_bytes(t)

\* Timestamp::read_bytes from a reader holding r: read_exact takes 16 bytes
\* or fails; `rest` is what the reader still holds.
read_bytes(r) ==
    IF Len(r) < 16
    THEN [ok |-> FALSE, val |-> 0, rest |-> r]
    ELSE [ok |-> TRUE, val |-> from_bytes(slice(r, 0, 16)),
          rest |-> SubSeq(r, 17, Len(r))]

\* Two timestamps a = input[1], b = input[2]; output is Some of the last
\* call, the byte strings it produced and the timestamps it produced.
InitBytes ==
    /\ input \in WallTimestamp \X WallTimestamp
    /\ output = None
    /\ NoClock /\ NoHist /\ NoNet

\* a.to_bytes(), b.to_bytes()
ToBytes ==
    /\ output = None
    /\ output' = Some([call |-> "to_bytes",
                       bytes |-> <<to_bytes(input[1]), to_bytes(input[2])>>,
                       vals |-> <<>>])
    /\ UNCHANGED <<input, clockVars, callVars, histVars, netVars>>

\* Timestamp::from_bytes on each of the two arrays.
FromBytes ==
    /\ output # None
    /\ the(output).call = "to_bytes"
    /\ output' = Some([call |-> "from_bytes",
                       bytes |-> the(output).bytes,
                       vals |-> <<from_bytes(the(output).bytes[1]),
                                  from_bytes(the(output).bytes[2])>>])
    /\ UNCHANGED <<input, clockVars, callVars, histVars, netVars>>

\* a.write_bytes(&mut wr), b.write_bytes(&mut wr) on one writer.
WriteBytes ==
    /\ output = None
    /\ output' = Some([call |-> "write_bytes",
                       bytes |-> <<write_bytes(write_bytes(<<>>, input[1]), input[2])>>,
                       vals |-> <<>>])
    /\ UNCHANGED <<input, clockVars, callVars, histVars, netVars>>

\* Timestamp::read_bytes(&mut r) twice on a reader over what was written.
ReadBytes ==
    /\ output # None
    /\ the(output).call = "write_bytes"
    /\ LET r1 == read_bytes(the(output).bytes[1])
           r2 == read_bytes(r1.rest)
       IN  output' = Some([call |-> "read_bytes",
                           bytes |-> <<r2.rest>>,
                           vals |-> IF r1.ok /\ r2.ok THEN <<r1.val, r2.val>>
                                    ELSE <<>>])
    /\ UNCHANGED <<input, clockVars, callVars, histVars, netVars>>

NextBytes == ToBytes \/ FromBytes \/ WriteBytes \/ ReadBytes

SpecBytes == InitBytes /\ [][NextBytes]_vars

\* The unsigned lexicographic comparison of two byte strings of one length.
RECURSIVE ByteLexCmp(_, _)
ByteLexCmp(x, y) ==
    IF x = <<>> THEN "Equal"
    ELSE IF Head(x) < Head(y) THEN "Less"
    ELSE IF Head(x) > Head(y) THEN "Greater"
    ELSE ByteLexCmp(Tail(x), Tail(y))

Called(c) == output # None /\ the(output).call = c

\* C16: for every two wall-clock timestamps a and b, comparing their
\* 16-byte encodings byte by byte, unsigned, gives the result of comparing
\* a and b.
C16_ByteOrderIsTimestampOrder ==
    Called("to_bytes")
       => ByteLexCmp(the(output).bytes[1], the(output).bytes[2])
             = cmp(input[1], input[2])

\* Two encoded timestamps whose order is decided by the epoch against the
\* order of their times, with a time of more than one non-zero byte.
C16_Witness ==
    /\ Called("to_bytes")
    /\ input[1].epoch < input[2].epoch
    /\ input[1].time = U64Max /\ input[2].time = 1
    /\ input[1].count > input[2].count
    /\ ByteLexCmp(the(output).bytes[1], the(output).bytes[2]) = "Less"

\* C17: from_bytes(to_bytes(t)) = t for every wall-clock timestamp t, and
\* read_bytes gives back what write_bytes wrote: two timestamps written to
\* one writer are read back, in order, and nothing is left over.
C17_BytesRoundTrip ==
    /\ Called("from_bytes") => the(output).vals = input
    /\ Called("read_bytes")
          => /\ the(output).vals = input
             /\ the(output).bytes = << <<>> >>

\* Two different timestamps, the first with every field non-zero and a
\* time that fills all eight bytes, were written and read back.
C17_Witness ==
    /\ Called("read_bytes")
    /\ the(output).vals = input
    /\ input[1] # input[2]
    /\ input[1].epoch > 0 /\ input[1].time = U64Max /\ input[1].count > 0

\* Byte k of n, counted from the least significant (byte 0).
Digit(n, k) == (n \div (ByteBase ^ k)) % ByteBase

\* The 16 bytes b hold t: the big-endian u32 epoch in bytes 0..4, the
\* big-endian u64 time in bytes 4..12, the big-endian u32 count in 12..16.
Layout(b, t) ==
    /\ Len(b) = 16
    /\ \A i \in 0..3 : b[1 + i] = Digit(t.epoch, 3 - i)
    /\ \A i \in 0..7 : b[5 + i] = Digit(t.time, 7 - i)
    /\ \A i \in 0..3 : b[13 + i] = Digit(t.count, 3 - i)

\* C18: to_bytes gives exactly 16 bytes: the epoch as a big-endian u32 in
\* bytes 0..4, the time as a big-endian u64 in bytes 4..12 and the count as
\* a big-endian u32 in bytes 12..16; from_bytes reads the three fields from
\* the same positions.
C18_SixteenBytesBigEndian ==
    /\ Called("to_bytes")
          => \A k \in 1..2 : Layout(the(output).bytes[k], input[k])
    /\ Called("from_bytes")
          => \A k \in 1..2 :
                /\ Layout(the(output).bytes[k], the(output).vals[k])
                /\ the(output).vals[k].epoch \in 0..U32Max
                /\ the(output).vals[k].time \in 0..U64Max
                /\ the(output).vals[k].count \in 0..U32Max

\* An encoding whose three fields each have the lowest byte set, with the
\* highest byte of the time and of the count set too.
C18_Witness ==
    /\ Called("to_bytes")
    /\ LET b == the(output).bytes[1]
       IN  /\ b[4] # 0
           /\ b[5] # 0 /\ b[12] # 0
           /\ b[13] # 0 /\ b[16] # 0
    /\ input[1].epoch < input[1].count

----------------------------------------------------------------------------
\* The wall-clock sources' conversion of a time since UNIX_EPOCH (a
\* std::time::Duration: u64 seconds and nanoseconds below NANOS_PER_SEC)
\* to their u64 representation.  u64 is scaled as above (0..U64Max), u128
\* accordingly, and the two rates are scaled with it.

NanosPerSec == 5
TicksPerSec == 2

U64Mod == U64Max + 1
U128Max == U64Mod * U64Mod - 1

Duration == [secs : 0..U64Max, nanos : 0..(NanosPerSec - 1)]

\* Duration::as_nanos, a u128.
as_nanos(d) == d.secs * NanosPerSec + d.nanos

\* `x * y` and `x + y` on u64: panic with overflow checks, wrap without.
u64_mul(x, y, b) ==
    IF x * y <= U64Max THEN Val(x * y)
    ELSE IF b = "debug" THEN Panic ELSE Val((x * y) % U64Mod)

u64_add(x, y, b) ==
    IF x + y <= U64Max THEN Val(x + y)
    ELSE IF b = "debug" THEN Panic ELSE Val((x + y) % U64Mod)

\* u128::checked_mul
checked_mul(x, y) == IF x * y <= U128Max THEN Some(x * y) ELSE None

\* Mutant: the ticks narrowed with `as u64`, which truncates.
as_u64(n) == Some(n % U64Mod)

\* u64::try_from(u128)
try_into_u64(n) == IF n <= U64Max THEN Some(n) ELSE None

Ok(v) == [res |-> "Ok", val |-> v]
Err(e) == [res |-> "Err", val |-> e]

\* WallNST::from_since_epoch (and WallT::from_timespec: the same
\* expression): as_secs() * NANOS_PER_SEC + subsec_nanos().  The function
\* returns Self: it has no error to return.
wall_ns_from_since_epoch(d, b) ==
    LET secs_ns == u64_mul(d.secs, NanosPerSec, b)
        ns == IF secs_ns.ok THEN u64_add(secs_ns.val, d.nanos, b) ELSE Panic
    IN  IF ns.ok THEN Ok(ns.val) ELSE [res |-> "panic", val |-> 0]

\* WallMST::from_since_epoch
wall_ms_from_since_epoch(d) ==
    LET product == checked_mul(TicksPerSec, as_nanos(d))
    IN  IF product = None THEN Err("SupportedTime")
        ELSE LET ticks == the(product) \div NanosPerSec
                 narrowed == try_into_u64(ticks)
             IN  IF narrowed = None THEN Err("TryFromIntError")
                 ELSE Ok(the(narrowed))

\* input is the time since the epoch; the build is either.
InitWall ==
    /\ input \in Duration
    /\ output = None
    /\ \E b \in Builds : new(0, None, b)
    /\ NoHist /\ NoNet

FromSinceEpochNS ==
    /\ output = None
    /\ output' = Some([call |-> "WallNST::from_since_epoch"]
                        @@ wall_ns_from_since_epoch(input, build))
    /\ UNCHANGED <<input, clockVars, callVars, histVars, netVars>>

FromSinceEpochMS ==
    /\ output = None
    /\ output' = Some([call |-> "WallMST::from_since_epoch"]
                        @@ wall_ms_from_since_epoch(input))
    /\ UNCHANGED <<input, clockVars, callVars, histVars, netVars>>

NextWall == FromSinceEpochNS \/ FromSinceEpochMS

SpecWall == InitWall /\ [][NextWall]_vars

\* C19: the nanosecond conversion of a time since the epoch returns an
\* error, without panicking or wrapping, when the nanosecond count does not
\* fit in a u64.
C19_NanosOutOfRangeIsError ==
    (Called("WallNST::from_since_epoch") /\ as_nanos(input) > U64Max)
       => the(output).res = "Err"

\* The number of ticks in a duration: whole ticks of 1 / TICKS_PER_SEC s.
TickCount(d) == (TicksPerSec * as_nanos(d)) \div NanosPerSec

\* C20: WallMST::from_since_epoch returns an error, without panicking or
\* wrapping, for every duration whose tick count does not fit in a u64, and
\* Ok (of that tick count) for every duration whose tick count fits.
C20_TicksErrorIffOutOfRange ==
    Called("WallMST::from_since_epoch")
       => IF TickCount(input) > U64Max
          THEN the(output).res = "Err"
          ELSE the(output) = [call |-> "WallMST::from_since_epoch",
                              res |-> "Ok", val |-> TickCount(input)]

\* The conversion refused the first duration whose tick count is one more
\* than a u64 holds.
C20_Witness ==
    /\ Called("WallMST::from_since_epoch")
    /\ TickCount(input) = U64Max + 1
    /\ the(output).res = "Err"

----------------------------------------------------------------------------
\* The structured serialization (serde_impl.rs).  A serializer is handed a
\* tuple struct and a visitor that it calls until the visitor returns None;
\* what it has been handed is kept as a tree: a number, or the sequence of
\* the elements visited.  The time of a Timestamp<T> is a plain u64 or a
\* WallT.

Num(n) == [kind |-> "num", v |-> n, items |-> <<>>]
TupleStruct(xs) == [kind |-> "seq", v |-> 0, items |-> xs]

\* SeqVisitor::visit of WallT's visitor in the given state: the element to
\* serialize, or None.
WallT_visit(state, value) ==
    IF state = 0 THEN Some(Num(value)) ELSE None

\* serialize_tuple_struct("WallT", visitor): visit until None, state += 1
\* after each element.
RECURSIVE WallT_elements(_, _)
WallT_elements(state, value) ==
    LET e == WallT_visit(state, value)
    IN  IF e = None THEN <<>> ELSE <<the(e)>> \o WallT_elements(state + 1, value)

\* Serialize for WallT
serialize_WallT(value) == TupleStruct(WallT_elements(0, value))

\* T::serialize for the time of a Timestamp<T>: T = WallT or T = u64.
serialize_time(time, wall) == IF wall THEN serialize_WallT(time) ELSE Num(time)

\* SeqVisitor::visit of Timestamp's visitor in the given state.
Timestamp_visit(state, value, wall) ==
    IF state = 0 THEN Some(Num(value.epoch))
    ELSE IF state = 1 THEN Some(serialize_time(value.time, wall))
    ELSE IF state = 2 THEN Some(Num(value.count))
    ELSE None

RECURSIVE Timestamp_elements(_, _, _)
Timestamp_elements(state, value, wall) ==
    LET e == Timestamp_visit(state, value, wall)
    IN  IF e = None THEN <<>>
        ELSE <<the(e)>> \o Timestamp_elements(state + 1, value, wall)

\* Serialize for Timestamp<T>
serialize_Timestamp(value, wall) == TupleStruct(Timestamp_elements(0, value, wall))

\* u32 / u64 ::deserialize: a number within the type's range.
deserialize_uint(node, max) ==
    IF node.kind = "num" /\ node.v <= max THEN Ok(node.v) ELSE Err("invalid type")

\* WallT's Visitor::visit_seq: one element, then visitor.end().
WallT_visit_seq(items) ==
    IF Len(items) < 1 THEN Err("end of stream")
    ELSE LET field0 == deserialize_uint(items[1], U64Max)
         IN  IF field0.res # "Ok" THEN field0
             ELSE IF Len(items) > 1 THEN Err("trailing elements")
             ELSE Ok(field0.val)

\* Deserialize for WallT
deserialize_WallT(node) ==
    IF node.kind = "seq" THEN WallT_visit_seq(node.items) ELSE Err("invalid type")

\* T::deserialize for the time of a Timestamp<T>.
deserialize_time(node, wall) ==
    IF wall THEN deserialize_WallT(node) ELSE deserialize_uint(node, U64Max)

\* Mutant: the visitor hands the first element to count and the third to
\* epoch.
Timestamp_visit_seq_reversed(items, wall) ==
    IF Len(items) < 3 THEN Err("end of stream")
    ELSE LET field0 == deserialize_uint(items[1], U32Max)
             field1 == deserialize_time(items[2], wall)
             field2 == deserialize_uint(items[3], U32Max)
         IN  IF field0.res # "Ok" THEN field0
             ELSE IF field1.res # "Ok" THEN field1
             ELSE IF field2.res # "Ok" THEN field2
             ELSE IF Len(items) > 3 THEN Err("trailing elements")
             ELSE Ok([epoch |-> field2.val, time |-> field1.val, count |-> field0.val])

\* Timestamp's Visitor::visit_seq: field0, field1, field2 by three visits
\* (None is end_of_stream), visitor.end(), then
\* Timestamp { epoch: field0, time: field1, count: field2 }.
Timestamp_visit_seq(items, wall) ==
    IF Len(items) < 3 THEN Err("end of stream")
    ELSE LET field0 == deserialize_uint(items[1], U32Max)
             field1 == deserialize_time(items[2], wall)
             field2 == deserialize_uint(items[3], U32Max)
         IN  IF field0.res # "Ok" THEN field0
             ELSE IF field1.res # "Ok" THEN field1
             ELSE IF field2.res # "Ok" THEN field2
             ELSE IF Len(items) > 3 THEN Err("trailing elements")
             ELSE Ok([epoch |-> field0.val, time |-> field1.val, count |-> field2.val])

\* Deserialize for Timestamp<T>
deserialize_Timestamp(node, wall) ==
    IF node.kind = "seq" THEN Timestamp_visit_seq(node.items, wall)
    ELSE Err("invalid type")

\* input is a timestamp and whether its time is a WallT; output is Some of
\* the last call, the tree serialized and the result of deserializing it.
InitSerde ==
    /\ input \in [ts : WallTimestamp, wall : BOOLEAN]
    /\ output = None
    /\ NoClock /\ NoHist /\ NoNet

Serialize ==
    /\ output = None
    /\ output' = Some([call |-> "serialize",
                       data |-> serialize_Timestamp(input.ts, input.wall),
                       back |-> Err("not read")])
    /\ UNCHANGED <<input, clockVars, callVars, histVars, netVars>>

Deserialize ==
    /\ Called("serialize")
    /\ output' = Some([call |-> "deserialize",
                       data |-> the(output).data,
                       back |-> deserialize_Timestamp(the(output).data, input.wall)])
    /\ UNCHANGED <<input, clockVars, callVars, histVars, netVars>>

NextSerde == Serialize \/ Deserialize

SpecSerde == InitSerde /\ [][NextSerde]_vars

\* C21: a timestamp serialized as the ordered 3-tuple (epoch, time, count),
\* a wall-clock time as a 1-tuple around its raw value, deserializes to a
\* timestamp equal to the original.
C21_SerdeRoundTrip ==
    /\ Called("serialize")
          => LET items == the(output).data.items
             IN  /\ Len(items) = 3
                 /\ items[1] = Num(input.ts.epoch)
                 /\ items[2] = IF input.wall THEN TupleStruct(<<Num(input.ts.time)>>)
                                ELSE Num(input.ts.time)
                 /\ items[3] = Num(input.ts.count)
    /\ Called("deserialize")
          => /\ the(output).back.res = "Ok"
             /\ the(output).back.val = input.ts

\* A wall-clock timestamp with three different non-zero fields came back
\* from its serialized form.
C21_Witness ==
    /\ Called("deserialize")
    /\ input.wall
    /\ input.ts.epoch > input.ts.count /\ input.ts.count > 0
    /\ input.ts.time = U64Max
    /\ the(output).back.res = "Ok"
    /\ the(output).back.val = input.ts

----------------------------------------------------------------------------
\* The arms of the update algorithm, on one clock (the fold of a now() is
\* against the physical reading, that of an accepted observe() against the
\* message).

\* The last call ran the update algorithm: a now(), or an observe() whose
\* offset check passed (ret is then "Ok", or "panic" out of the fold).
\* On an unlimited clock nothing but the fold can panic.
FoldRan ==
    /\ op \in {"now", "observe"}
    /\ ret = "Ok" \/ (ret = "panic" /\ max_offset = None)

\* C22: when the observation is ahead of lp on (epoch, time), the fold sets
\* last_observed to exactly the observation, its count included: the local
\* count is discarded, and a higher epoch is adopted also when the
\* observation's time is lower than lp.time.
C22_AheadObservationAdopted ==
    [][(FoldRan' /\ LexLess(ET(last_observed), ET(Folded')))
          => /\ ret' = "Ok"
             /\ last_observed' = Folded']_vars

\* An observe adopted a message of a higher epoch, an earlier time and a
\* lower count than the last_observed it found.
C22_Witness ==
    /\ op = "observe" /\ ret = "Ok"
    /\ the(found).epoch < the(msg).epoch
    /\ the(found).time > the(msg).time
    /\ the(found).count > the(msg).count
    /\ last_observed = the(msg)

\* C23: when the observation and lp have the same epoch and the same time
\* and lp.count < obs.count, the fold sets last_observed to
\* {lp.epoch, lp.time, obs.count + 1}.
C23_EqualTimeHigherCountAdvancesObserved ==
    [][(/\ FoldRan'
        /\ ET(last_observed) = ET(Folded')
        /\ last_observed.count < Folded'.count)
          => /\ ret' = "Ok"
             /\ last_observed' = [epoch |-> last_observed.epoch,
                                   time |-> last_observed.time,
                                   count |-> Folded'.count + 1]]_vars

\* C24: in every remaining case (lp ahead of the observation on (epoch,
\* time), or equal on both with lp.count >= obs.count) the fold keeps
\* lp.epoch and lp.time and sets the count to lp.count + 1; so a now() that
\* finds the source standing still or gone backward returns the epoch and
\* time of the one before with a count one higher.
C24_OtherwiseLocalCountAdvances ==
    [][(/\ FoldRan'
        /\ \/ LexLess(ET(Folded'), ET(last_observed))
           \/ /\ ET(Folded') = ET(last_observed)
              /\ last_observed.count >= Folded'.count)
          => /\ ret' = "Ok"
             /\ last_observed' = [epoch |-> last_observed.epoch,
                                   time |-> last_observed.time,
                                   count |-> last_observed.count + 1]]_vars

\* C25: a now() returns count 0 exactly when (configured epoch, physical
\* reading) is strictly greater than the (epoch, time) of the last_observed
\* it finds, and then returns {configured epoch, reading, 0}; in every
\* other case the count it returns is at least 1.
C25_NowCountZeroIffTimeAdvanced ==
    [][(op' = "now" /\ ret' = "Ok")
          => IF LexLess(ET(last_observed), ET(read_pt))
             THEN last_observed' = read_pt
             ELSE last_observed'.count >= 1]_vars

C27_SetEpochChangesEpochOnly ==
    [][op' = "set_epoch"
          => /\ ret' = "Ok"
             /\ last_observed' = last_observed
             /\ src' = src
             /\ max_offset' = max_offset]_vars

\* A set_epoch on a limited clock configured an epoch below the one
\* last_observed carries and left last_observed, which earlier calls had
\* moved, as it found it.
C27_Witness ==
    /\ op = "set_epoch"
    /\ max_offset # None
    /\ epoch < last_observed.epoch
    /\ last_observed = the(found)
    /\ last_observed.count > 0

\* The greater of two (epoch, time) pairs.
LexMax(x, y) == IF LexLess(x, y) THEN y ELSE x

\* C28: an accepted observe(msg) computes the new last_observed from the
\* last_observed it finds and msg only, whatever the source reads and
\* whatever epoch is configured: it is the update algorithm's result on
\* those two, its (epoch, time) is the lexicographic maximum of theirs, and
\* the configured epoch and the source are left as they were.
C28_ObserveFoldsMessageOnly ==
    [][(op' = "observe" /\ ret' = "Ok")
          => /\ ET(last_observed') = LexMax(ET(last_observed), ET(the(msg')))
             /\ last_observed' = do_observe(last_observed, the(msg'), build).val
             /\ epoch' = epoch
             /\ src' = src]_vars

\* An observe was accepted while the source read later than both the
\* message and the last_observed it found, in a configured epoch above
\* both: neither the reading nor that epoch entered last_observed.
C28_Witness ==
    /\ op = "observe" /\ ret = "Ok"
    /\ LexLess(ET(the(found)), ET(read_pt))
    /\ LexLess(ET(the(msg)), ET(read_pt))
    /\ epoch > the(found).epoch /\ epoch > the(msg).epoch
    /\ ET(last_observed) = LexMax(ET(the(found)), ET(the(msg)))
    /\ last_observed.epoch < epoch

----------------------------------------------------------------------------
\* A clock built by new_with_max_diff and a clock built by new over the
\* same source, given the same calls.  The limited clock is the clock of
\* the variables above; `clocks` holds its unlimited twin (epoch,
\* last_observed and how its last call ended).  The run is followed until an
\* observe is rejected or a call panics.

InitPair ==
    /\ \E t0 \in Times, d \in Offsets, b \in Builds : new(t0, Some(d), b)
    /\ clocks = [epoch |-> 0, last_observed |-> last_observed, ret |-> "Ok"]
    /\ net = None /\ past = None /\ ev = None
    /\ stopped = {}
    /\ NoLock
    /\ NoHist /\ NoPure

InStep == stopped = {} /\ alive /\ clocks.ret # "panic"

\* How a call on the twin that computed r ends.
twin_after(r) ==
    [clocks EXCEPT !.last_observed = IF r.ok THEN r.val ELSE @,
                   !.ret = IF r.ok THEN "Ok" ELSE "panic"]

PairNow ==
    /\ InStep
    /\ now
    /\ clocks' = twin_after(clock_now(clocks, src, build))
    /\ UNCHANGED <<net, past, ev, stopped, pc, mutex, histVars, pureVars>>

PairObserve ==
    /\ InStep
    /\ \E m \in Timestamp :
          /\ observe(m)
          /\ clocks' = twin_after(clock_observe(clocks, m, build))
    /\ stopped' = IF ret' = "OffsetTooGreat" THEN {"rejected"} ELSE stopped
    /\ UNCHANGED <<net, past, ev, pc, mutex, histVars, pureVars>>

PairSetEpoch ==
    /\ InStep
    /\ \E e \in Epochs :
          /\ set_epoch(e)
          /\ clocks' = [clocks EXCEPT !.epoch = e, !.ret = "Ok"]
    /\ UNCHANGED <<net, past, ev, stopped, pc, mutex, histVars, pureVars>>

\* The one source both clocks read moves.
PairSetTime ==
    /\ InStep
    /\ \E t \in Times : set_time(t)
    /\ clocks' = [clocks EXCEPT !.ret = "Ok"]
    /\ UNCHANGED <<net, past, ev, stopped, pc, mutex, histVars, pureVars>>

NextPair == PairNow \/ PairObserve \/ PairSetEpoch \/ PairSetTime

SpecPair == InitPair /\ [][NextPair]_vars

\* C29: as long as no observe has been rejected, the clock with a maximum
\* offset and the clock without one, given the same source readings and
\* the same calls, end every call alike and hold the same last_observed.
C29_LimitedMatchesUnlimited ==
    stopped = {}
       => /\ clocks.ret = ret
          /\ clocks.last_observed = last_observed
          /\ clocks.epoch = epoch

----------------------------------------------------------------------------
\* One clock in an Arc<Mutex<..>> shared by the listener and the timer of
\* hlc-demo.  Each `clock.lock().expect("lock clock").call()` statement is
\* two steps: the lock is taken, then the call runs and the guard is
\* dropped.  A call that panics leaves the mutex poisoned, and a lock() on
\* a poisoned mutex panics in expect.  The clock is Clock::wall(): no
\* maximum offset, and a source whose reading changes on its own.

Tasks == {"listener", "timer"}

\* The clock as the functions above take it.
shared == [epoch |-> epoch, last_observed |-> last_observed]

InitDemo ==
    /\ \E t0 \in Times, b \in Builds : new(t0, None, b)
    /\ pc = [t \in Tasks |-> IF t = "listener" THEN "recv" ELSE "tick"]
    /\ mutex = None
    /\ net = {}
    /\ stopped = {}
    /\ clocks = None /\ past = None /\ ev = None
    /\ NoHist /\ NoPure

\* The listener's stream yields a datagram: any timestamp a peer sent.
DemoReceive ==
    /\ "listener" \notin stopped
    /\ pc["listener"] = "recv"
    /\ \E observation \in Timestamp : net' = {observation}
    /\ pc' = [pc EXCEPT !["listener"] = "now1"]
    /\ UNCHANGED <<clockVars, callVars, histVars, pureVars, clocks, past, ev,
                   stopped, mutex>>

\* clock.lock() on a free mutex.
DemoLock(t) ==
    /\ t \notin stopped
    /\ pc[t] # "recv"
    /\ mutex = None
    /\ mutex' = Some(t)
    /\ UNCHANGED <<clockVars, callVars, histVars, pureVars, clocks, net, past,
                   ev, stopped, pc>>

\* clock.lock().expect("lock clock") on a poisoned mutex.
DemoLockPoisoned(t) ==
    /\ t \notin stopped
    /\ pc[t] # "recv"
    /\ mutex = Some("poisoned")
    /\ stopped' = stopped \cup {t}
    /\ UNCHANGED <<clockVars, callVars, histVars, pureVars, clocks, net, past,
                   ev, pc, mutex>>

\* The holder's call runs and the guard is dropped.  The listener's
\* statements are now(), then `observation.time - now.time` (WallT's Sub, a
\* u64 subtraction, outside the lock), observe(&observation), now(); the
\* timer's is now().
DemoCall(t) ==
    /\ mutex = Some(t)
    /\ LET r == IF pc[t] = "observe" THEN clock_observe(shared, the(net), build)
                ELSE clock_now(shared, src, build)
           cdelta == IF pc[t] = "now1" /\ r.ok
                     THEN time_sub(the(net).time, r.val.time, build)
                     ELSE Val(0)
       IN  IF ~r.ok
           THEN /\ mutex' = Some("poisoned")
                /\ stopped' = stopped \cup {t}
                /\ UNCHANGED <<last_observed, maxNow, pc, net>>
           ELSE /\ mutex' = None
                /\ last_observed' = r.val
                /\ maxNow' = IF pc[t] = "observe" THEN maxNow
                              ELSE MaxTs(maxNow, r.val)
                /\ stopped' = IF cdelta.ok THEN stopped ELSE stopped \cup {t}
                /\ pc' = [pc EXCEPT ![t] =
                            IF ~cdelta.ok THEN @
                            ELSE IF @ = "now1" THEN "observe"
                            ELSE IF @ = "observe" THEN "now2"
                            ELSE IF @ = "now2" THEN "recv"
                            ELSE @]
                /\ net' = IF pc[t] = "now2" THEN {} ELSE net
    /\ UNCHANGED <<src, epoch, max_offset, build, callVars, maxObs, found, maxRead,
                   pureVars, clocks, past, ev>>

\* The system clock, which the wall source reads, shows another time.
DemoWallMoves ==
    /\ \E t \in Times \ {src} : src' = t
    /\ UNCHANGED <<epoch, last_observed, max_offset, build, callVars, histVars,
                   pureVars, netVars>>

NextDemo ==
    \/ DemoReceive
    \/ \E t \in Tasks : DemoLock(t) \/ DemoLockPoisoned(t) \/ DemoCall(t)
    \/ DemoWallMoves

SpecDemo == InitDemo /\ [][NextDemo]_vars

\* C30: when the callers of a shared clock each take the mutex for a single
\* call, every now() result is strictly greater than the result of every
\* now() that held the lock earlier, whichever caller made it.
C30_SharedNowStrictlyIncreasing ==
    [][(/\ mutex # None /\ mutex' = None
        /\ pc[the(mutex)] # "observe"
        /\ maxNow # None)
          => lt(the(maxNow), last_observed')]_vars

\* C31: the timestamp the listener forwards, the result of its closing
\* now(), is strictly greater than the observation it received, whatever
\* timer now() calls ran between its three calls.
C31_ReplyAboveObservation ==
    [][(/\ mutex = Some("listener")
        /\ pc["listener"] = "now2"
        /\ pc'["listener"] = "recv")
          => lt(the(net), last_observed')]_vars

\* C34: a timestamp returned by now() is never behind the local physical
\* clock: its (epoch, time) is lexicographically at least (the configured
\* epoch, the reading that call took).
C34_NowNotBehindPhysicalClock ==
    (op = "now" /\ ret = "Ok")
       => \/ last_observed.epoch > epoch
          \/ last_observed.epoch = epoch /\ last_observed.time >= src

\* A now() that adopted a reading ahead of what the clock held, on a clock
\* whose epoch had been raised.
C34_Witness ==
    /\ op = "now" /\ ret = "Ok"
    /\ epoch > 0
    /\ last_observed = [epoch |-> epoch, time |-> src, count |-> 0]
    /\ src > 0

\* C35: while last_observed.epoch is above the configured epoch, now()
\* returns last_observed with its count raised by one: the epoch and the
\* time stay as they are, wherever the source stands.
C35_RememberedEpochFreezesTime ==
    [][(op' = "now" /\ last_observed.epoch > epoch)
          => /\ ret' = "Ok"
             /\ last_observed' = [last_observed EXCEPT !.count = @ + 1]]_vars

----------------------------------------------------------------------------
\* One clock with a maximum offset, with the greatest reading it has taken
\* from its source: construction, now() and observe() each take one.

Later(m, t) == IF the(m) < t THEN Some(t) ELSE m

InitLim ==
    /\ \E t0 \in Times, d \in Offsets, b \in Builds : new(t0, Some(d), b)
    /\ maxNow = None /\ maxObs = None /\ found = None
    /\ maxRead = Some(src)
    /\ NoPure
    /\ NoNet

LimNow ==
    /\ now
    /\ maxRead' = Later(maxRead, src)
    /\ UNCHANGED <<maxNow, maxObs, found, pureVars, netVars>>

LimObserve ==
    /\ \E m \in Timestamp : observe(m)
    /\ maxRead' = Later(maxRead, src)
    /\ UNCHANGED <<maxNow, maxObs, found, pureVars, netVars>>

NextLim == LimNow \/ LimObserve \/ SetEpoch \/ SetTime

SpecLim == InitLim /\ [][NextLim]_vars

C37_AdmissionByTimeOnly ==
    (op = "observe" /\ max_offset # None)
       => \A m2 \in Timestamp :
             m2.time = the(msg).time
                => LET v2 == verify_offset(max_offset, read_pt, m2, build)
                   IN  /\ (ret = "OffsetTooGreat") <=> (v2 = "OffsetTooGreat")
                       /\ (ret = "Ok") => (v2 = "Ok")

\* A message with the highest epoch and count was admitted at the edge of
\* the offset, by a clock whose epoch and count are lower.
C37_Witness ==
    /\ op = "observe" /\ ret = "Ok" /\ max_offset # None
    /\ the(msg).epoch = MaxEpoch /\ epoch < MaxEpoch
    /\ the(msg).count = MaxCount
    /\ the(msg).time = src + the(max_offset)
    /\ last_observed = the(msg)

----------------------------------------------------------------------------
\* An unlimited clock that holds lp and observes the same messages in one
\* order and in the other.  observe() on an unlimited clock is do_observe
\* (verify_offset computes nothing); a panic ends the sequence.

RECURSIVE observe_all(_, _, _)
observe_all(lp, ms, b) ==
    IF ms = <<>> THEN Val(lp)
    ELSE LET r == clock_observe([epoch |-> 0, last_observed |-> lp], Head(ms), b)
         IN  IF r.ok THEN observe_all(r.val, Tail(ms), b) ELSE r

Reversed(ms) == [i \in 1..Len(ms) |-> ms[Len(ms) + 1 - i]]

InitBothOrders ==
    /\ input \in [lp : Timestamp, ms : Timestamp \X Timestamp]
    /\ output = None
    /\ \E b \in Builds : new(0, None, b)
    /\ NoHist /\ NoNet

ObserveBothOrders ==
    /\ output = None
    /\ output' = Some([call |-> "observe_all",
                       forth |-> observe_all(input.lp, input.ms, build),
                       back |-> observe_all(input.lp, Reversed(input.ms), build)])
    /\ UNCHANGED <<input, clockVars, callVars, histVars, netVars>>

NextBothOrders == ObserveBothOrders

SpecBothOrders == InitBothOrders /\ [][NextBothOrders]_vars

\* C38: on an unlimited clock, the (epoch, time) of last_observed after the
\* same messages have been observed is the same in either order: the
\* lexicographic maximum over the starting value and the messages.
C38_EpochTimeOrderIndependent ==
    Called("observe_all")
       => LET top == LexMax(ET(input.lp),
                            LexMax(ET(input.ms[1]), ET(input.ms[2])))
          IN  /\ the(output).forth.ok => ET(the(output).forth.val) = top
              /\ the(output).back.ok => ET(the(output).back.val) = top

\* Two messages, one of a higher epoch and a lower time than the other,
\* left the same epoch and time in either order and different counts.
C38_Witness ==
    /\ Called("observe_all")
    /\ the(output).forth.ok /\ the(output).back.ok
    /\ input.ms[1].epoch > input.ms[2].epoch
    /\ input.ms[1].time < input.ms[2].time
    /\ ET(the(output).forth.val) = ET(the(output).back.val)
    /\ the(output).forth.val.count # the(output).back.val.count

----------------------------------------------------------------------------
\* WallMST, a u64 count of ticks of 1 / TICKS_PER_SEC s, to a time since
\* the epoch and back (source/wall_ms.rs).  A SystemTime is kept as its
\* Duration since UNIX_EPOCH, at the nanosecond resolution of the Duration;
\* its seconds are an i64.

I64Max == U64Max \div 2

\* u32::try_from(u64)
try_into_u32(n) == IF n <= U32Max THEN Some(n) ELSE None

Panicked == [res |-> "panic", val |-> 0]

\* Duration::new(secs, nanos): nanoseconds of a second or more carry into
\* the seconds, and the carry panics when the seconds overflow.
Duration_new(secs, nanos) ==
    IF secs + nanos \div NanosPerSec <= U64Max
    THEN Ok([secs |-> secs + nanos \div NanosPerSec, nanos |-> nanos % NanosPerSec])
    ELSE Panicked

\* Duration::from_nanos
from_nanos(n) == [secs |-> n \div NanosPerSec, nanos |-> n % NanosPerSec]

\* The statements of duration_since_epoch before its widened product: the
\* per-second arithmetic whose Duration is dropped.  TRUE when one of them
\* panics.
since_epoch_prelude_panics(t, b) ==
    LET nanos_per_tick == NanosPerSec \div TicksPerSec
        secs == t \div TicksPerSec
        minor_ticks == t % TicksPerSec
        nsecs == u64_mul(minor_ticks, nanos_per_tick, b)
    IN  \/ ~nsecs.ok
        \/ ~(nsecs.val < NanosPerSec)
        \/ try_into_u32(nsecs.val) = None
        \/ Duration_new(secs, nsecs.val).res = "panic"

\* Mutant: the product taken on u64, self.0.checked_mul(NANOS_PER_SEC).
duration_since_epoch_u64(t, b) ==
    IF since_epoch_prelude_panics(t, b) THEN Panicked
    ELSE IF t * NanosPerSec > U64Max THEN Err("SupportedTime")
    ELSE Ok(from_nanos((t * NanosPerSec) \div TicksPerSec))

\* Mutant: the whole seconds only, Duration::new(secs, 0).
duration_since_epoch_secs(t, b) ==
    IF since_epoch_prelude_panics(t, b) THEN Panicked
    ELSE Duration_new(t \div TicksPerSec, 0)

\* Mutant: the nanoseconds narrowed with try_into().expect(..).
duration_since_epoch_expect(t, b) ==
    IF since_epoch_prelude_panics(t, b) THEN Panicked
    ELSE LET nanos == (t * NanosPerSec) \div TicksPerSec
         IN  IF try_into_u64(nanos) = None THEN Panicked
             ELSE Ok(from_nanos(nanos))

\* WallMST::duration_since_epoch
duration_since_epoch(t, b) ==
    IF since_epoch_prelude_panics(t, b) THEN Panicked
    ELSE LET product == checked_mul(t, NanosPerSec)
         IN  IF product = None THEN Err("SupportedTime")
             ELSE LET nanos == the(product) \div TicksPerSec
                      narrowed == try_into_u64(nanos)
                  IN  IF narrowed = None THEN Err("SupportedTime")
                      ELSE Ok(from_nanos(the(narrowed)))

\* WallMST::as_systemtime: UNIX_EPOCH + duration, which panics when the
\* sum is past the last SystemTime.
as_systemtime(t, b) ==
    LET d == duration_since_epoch(t, b)
    IN  IF d.res # "Ok" THEN d
        ELSE IF d.val.secs > I64Max THEN Panicked
        ELSE Ok(d.val)

\* WallMST::from_timespec of a SystemTime not before UNIX_EPOCH.
from_timespec(st) == wall_ms_from_since_epoch(st)

\* Ord for SystemTime: seconds, then nanoseconds.
systemtime_cmp(x, y) ==
    IF int_cmp(x.secs, y.secs) # "Equal" THEN int_cmp(x.secs, y.secs)
    ELSE int_cmp(x.nanos, y.nanos)

\* The generator wallclocks2 of the tests: tick values below a fraction of
\* u64::MAX.
RangeDivisor == 4
limit == U64Max \div RangeDivisor
wallclocks2 == 0..(limit - 1)

\* The rounding the tests allow for: half a millisecond of ticks.
MillisPerSec == 1
allowable_error == (TicksPerSec \div MillisPerSec) \div 2

\* input is a tick value; the build is either.
InitTicks ==
    /\ input \in 0..U64Max
    /\ output = None
    /\ \E b \in Builds : new(0, None, b)
    /\ NoHist /\ NoNet

DurationSinceEpoch ==
    /\ output = None
    /\ output' = Some([call |-> "duration_since_epoch"]
                        @@ duration_since_epoch(input, build))
    /\ UNCHANGED <<input, clockVars, callVars, histVars, netVars>>

\* as_systemtime(wc), then from_timespec of the SystemTime.
ViaTimespec ==
    /\ output = None
    /\ LET tsp == as_systemtime(input, build)
       IN  output' = Some([call |-> "via_timespec", tsp |-> tsp,
                           wc2 |-> IF tsp.res = "Ok" THEN from_timespec(tsp.val)
                                   ELSE tsp])
    /\ UNCHANGED <<input, clockVars, callVars, histVars, netVars>>

\* ta.cmp(&tb) and ba.cmp(&bb), for the input as the generated ta and every
\* generated tb.
CompareSystemTimes ==
    /\ output = None
    /\ input \in wallclocks2
    /\ LET ba == as_systemtime(input, build)
       IN  output' = Some([call |-> "compare",
                           ticks |-> [tb \in wallclocks2 |-> int_cmp(input, tb)],
                           times |-> [tb \in wallclocks2 |->
                                       LET bb == as_systemtime(tb, build)
                                       IN  IF ba.res = "Ok" /\ bb.res = "Ok"
                                           THEN systemtime_cmp(ba.val, bb.val)
                                           ELSE "failed"]])
    /\ UNCHANGED <<input, clockVars, callVars, histVars, netVars>>

NextTicks == DurationSinceEpoch \/ ViaTimespec \/ CompareSystemTimes

SpecTicks == InitTicks /\ [][NextTicks]_vars

\* C32: for every tick value wc the tests generate, as_systemtime(wc)
\* succeeds, from_timespec of it succeeds with a value wc2, wc2 <= wc, and
\* wc - wc2 is at most half a millisecond of ticks.
C32_TimespecRoundTripWithinHalfMilli ==
    (Called("via_timespec") /\ input \in wallclocks2)
       => /\ the(output).tsp.res = "Ok"
          /\ the(output).wc2.res = "Ok"
          /\ the(output).wc2.val <= input
          /\ input - the(output).wc2.val <= allowable_error

\* A generated tick value that is not a whole number of nanoseconds and is
\* too large for a u64 product with NANOS_PER_SEC came back one tick lower.
C32_Witness ==
    /\ Called("via_timespec") /\ input \in wallclocks2
    /\ input * NanosPerSec > U64Max
    /\ the(output).wc2.res = "Ok"
    /\ the(output).wc2.val = input - 1

\* C33: for every two tick values a and b the tests generate, comparing
\* as_systemtime(a) with as_systemtime(b) gives the result of comparing a
\* with b, so that distinct tick values map to distinct instants.
C33_SystemTimeOrdersAsTicks ==
    (Called("compare") /\ input \in wallclocks2)
       => the(output).times = the(output).ticks

\* Two tick values of one second were compared, and tick values either
\* side of the input.
C33_Witness ==
    /\ Called("compare") /\ input \in wallclocks2
    /\ input % TicksPerSec = 0 /\ input >= TicksPerSec
    /\ the(output).times[input + 1] = "Less"
    /\ the(output).times[input - 1] = "Greater"
    /\ the(output).times[input] = "Equal"

\* C39: duration_since_epoch panics for no u64 tick value, and returns an
\* error exactly for the tick values whose nanosecond count does not fit in
\* a u64.
C39_DurationSinceEpochNeverPanics ==
    Called("duration_since_epoch")
       => /\ the(output).res # "panic"
          /\ ~since_epoch_prelude_panics(input, build)
          /\ input * NanosPerSec <= U128Max
          /\ (the(output).res = "Err")
                <=> ((input * NanosPerSec) \div TicksPerSec > U64Max)

\* The first tick value whose nanosecond count is past u64::MAX was
\* answered with an error.
C39_Witness ==
    /\ Called("duration_since_epoch")
    /\ (input * NanosPerSec) \div TicksPerSec > U64Max
    /\ ((input - 1) * NanosPerSec) \div TicksPerSec <= U64Max
    /\ the(output).res = "Err"

====
